---- MODULE Spec2Model ----
(***************************************************************************)
(* Meta-Weight-Net training script (src/main.py): the Inner (classifier)   *)
(* and Outer (meta-weight network) problems, the ReweightingEngine with    *)
(* its validation() hook, and the run configured by engine_config.         *)
(*                                                                         *)
(* Network parameters are abstracted to version counters: innerVer is the  *)
(* number of optimizer updates the inner module has received, outerVer     *)
(* the number the outer module has received.  A state_dict is the version  *)
(* it was taken at.  The step order of engine.run() (one leaf step per     *)
(* iteration, the parent stepping after unroll_steps steps of its child,   *)
(* validation every valid_step iterations) is the one the engine that      *)
(* main.py configures at lines 184-208 follows.                            *)
(***************************************************************************)
EXTENDS Integers, Sequences, FiniteSets, TLC

\* ------------------------------------------------------------ configuration

\* engine_config: train_iters=15000, valid_step=500
train_iters == 15000
valid_step == 500
\* inner_config: unroll_steps=1
unroll_steps == 1
\* MultiStepLR(milestones=[10000, 13000], gamma=0.1); gamma is kept as its inverse
milestones == {10000, 13000}
gamma_inv == 10
\* --lr default 0.1 and --meta_lr default 1e-5, both in units of 1e-7
lr == 1000000
meta_lr == 100
\* best_acc = -1
best_acc_init == -1

\* ------------------------------------------------------------ bounds

\* number of test samples the test_dataloader yields
TestTotal == 1
\* per-sample cross-entropy values range over 0..MaxLoss
MaxLoss == 2
\* samples per training batch
BatchLen == 2
\* the outer network's output, in units of 1/MaxWeight (a weight in [0,1])
MaxWeight == 1

VARIABLES
    baseline,      \* args.baseline
    retrain,       \* args.retrain
    problems,      \* the engine's problems
    u2l,           \* dependencies["u2l"], as a set of <<upper, lower>> edges
    l2u,           \* dependencies["l2u"], as a set of <<lower, upper>> edges
    pc,            \* position of engine.run(): train, outer, valid, print, done
    global_step,   \* engine.global_step
    innerVer,      \* inner module parameters (number of SGD updates applied)
    outerVer,      \* outer module parameters (number of Adam updates applied)
    last_epoch,    \* the inner scheduler's step count
    innerLr,       \* learning rate of the inner optimizer's parameter group
    outerLr,       \* learning rate of the outer optimizer's parameter group
    lrChanges,     \* how many scheduler steps changed innerLr
    outerRead,     \* inner parameters read by the latest Outer.training_step
    outerFwd,      \* calls of the outer network made by Inner.training_step
    best_acc,      \* the global best_acc
    ret,           \* what the latest validation() returned
    accsSeen,      \* the accuracies computed by all validation() calls so far
    validSteps,    \* the global steps at which validation() was invoked
    files,         \* checkpoint store: file name -> saved state_dict
    overwritten,   \* a torch.save of this run replaced a file of this run
    printed,       \* the "Best Acc." line, once printed
    outerNet,      \* the outer module as a map: per-sample loss -> weight
    lastBatch,     \* batch of the latest Inner.training_step under SpecLoss
    lastLoss       \* its returned loss, as numerator and denominator

vars == <<baseline, retrain, problems, u2l, l2u, pc, global_step, innerVer,
          outerVer, last_epoch, innerLr, outerLr, lrChanges, outerRead,
          outerFwd, best_acc, ret, accsSeen, validSteps, files, overwritten,
          printed, outerNet, lastBatch, lastLoss>>

\* ------------------------------------------------------------ helpers

RECURSIVE SumSeq(_)
SumSeq(s) == IF s = << >> THEN 0 ELSE Head(s) + SumSeq(Tail(s))

RECURSIVE Pow(_, _)
Pow(b, e) == IF e = 0 THEN 1 ELSE b * Pow(b, e - 1)

SetMax(S) == CHOOSE m \in S : \A x \in S : x <= m

NoneYet == [acc |-> best_acc_init, best_acc |-> best_acc_init]

Reweighting == ~baseline /\ ~retrain

\* ------------------------------------------------------------ Inner / Outer

Losses == 0..MaxLoss
Weights == 0..MaxWeight
\* a training sample: input x, label y, and the cross-entropy ce that
\* F.cross_entropy(self.forward(x), y, reduction="none") gives for it
Samples == [x : 0..1, y : 0..1, ce : Losses]
Batches == [1..BatchLen -> Samples]
OuterNets == [Losses -> Weights]

\* Outer.forward on the reshaped (N,1) loss vector: one weight per row
Outer_forward(net, lossVector) == [i \in DOMAIN lossVector |-> net[lossVector[i]]]

MutUnweighted(batch, net, base, retr) ==
    LET loss_vector == [i \in DOMAIN batch |-> batch[i].ce]
    IN [num |-> SumSeq(loss_vector) * MaxWeight,
        den |-> Len(batch) * MaxWeight, weight |-> << >>,
        outerCalls |-> IF base \/ retr THEN 0 ELSE 1]

\* Inner.training_step: the loss it returns, and how often it called self.outer
Inner_training_step(batch, net, base, retr) ==
    LET loss_vector == [i \in DOMAIN batch |-> batch[i].ce]
    IN IF base \/ retr
       THEN [num |-> SumSeq(loss_vector) * MaxWeight,
             den |-> Len(batch) * MaxWeight, weight |-> << >>,
             outerCalls |-> 0]
       ELSE LET weight == Outer_forward(net, loss_vector)
                prod == [i \in DOMAIN batch |-> weight[i] * loss_vector[i]]
            IN [num |-> SumSeq(prod),
                den |-> Len(batch) * MaxWeight, weight |-> weight,
                outerCalls |-> 1]

MutDecayAfterMilestone(cur, epoch) ==
    IF \E m \in milestones : epoch >= m THEN cur \div gamma_inv ELSE cur

\* MultiStepLR.get_lr at last_epoch = epoch, from the group's current lr
MultiStepLR_get_lr(cur, epoch) ==
    IF epoch \notin milestones THEN cur ELSE cur \div gamma_inv

\* ------------------------------------------------------------ engine set-up

MutDependenciesAlways(base, retr) ==
    [problems |-> {"outer", "inner"},
     u2l |-> {<<"outer", "inner">>},
     l2u |-> {<<"inner", "outer">>}]

\* problems and dependencies as built at lines 196-203
Dependencies(base, retr) ==
    IF base \/ retr
    THEN [problems |-> {"inner"}, u2l |-> {}, l2u |-> {}]
    ELSE [problems |-> {"outer", "inner"},
          u2l |-> {<<"outer", "inner">>},
          l2u |-> {<<"inner", "outer">>}]

\* the problems that list p as their lower problem
Parents(p) == {e[2] : e \in {d \in l2u : d[1] = p}}

MutUnrollTwo(count) == count % (unroll_steps + 1) = 0

\* the inner problem hands over to its parents every unroll_steps steps
UnrollDone(count) == count % unroll_steps = 0

LoopNext(it) == IF it < train_iters THEN "train" ELSE "print"

MutValidOffByOne(it) ==
    IF (it - 1) % valid_step = 0 THEN "valid" ELSE LoopNext(it)

\* after train_step() of iteration it: validate when it % valid_step == 0
AfterTrainStep(it) ==
    IF it % valid_step = 0 THEN "valid" ELSE LoopNext(it)

\* ------------------------------------------------------------ validation

MutBestIsLatest(best, acc) == acc

\* if best_acc < acc: best_acc = acc
UpdateBest(best, acc) == IF best < acc THEN acc ELSE best

Save(fs, name, state) ==
    [n \in DOMAIN fs \cup {name} |-> IF n = name THEN state ELSE fs[n]]

MutSaveInnerOnly(fs, step, inner, outer, base, retr) ==
    IF ~retr /\ ~base THEN Save(fs, <<"net", step>>, inner) ELSE fs

MutSaveInAnyMode(fs, step, inner, outer, base, retr) ==
    Save(Save(fs, <<"net", step>>, inner), <<"meta_net", step>>, outer)

MutSaveFixedName(fs, step, inner, outer, base, retr) ==
    IF ~retr /\ ~base
    THEN Save(Save(fs, <<"net", 0>>, inner), <<"meta_net", 0>>, outer)
    ELSE fs

\* the two torch.save calls of validation(), lines 173-180
SaveCheckpoints(fs, step, inner, outer, base, retr) ==
    IF ~retr /\ ~base
    THEN Save(Save(fs, <<"net", step>>, inner), <<"meta_net", step>>, outer)
    ELSE fs

\* ------------------------------------------------------------ the run

\* the batch the train_dataloader yields at a step of the run
TrainBatch(step) ==
    [i \in 1..BatchLen |-> [x |-> 0, y |-> 0, ce |-> (step + i) % (MaxLoss + 1)]]

InitRun(net) ==
    /\ baseline \in BOOLEAN
    /\ retrain \in BOOLEAN
    /\ problems = Dependencies(baseline, retrain).problems
    /\ u2l = Dependencies(baseline, retrain).u2l
    /\ l2u = Dependencies(baseline, retrain).l2u
    /\ pc = "train"
    /\ global_step = 0
    /\ innerVer = 0
    /\ outerVer = 0
    /\ last_epoch = 0
    /\ innerLr = lr
    /\ outerLr = meta_lr
    /\ lrChanges = 0
    /\ outerRead = 0
    /\ outerFwd = 0
    /\ best_acc = best_acc_init
    /\ ret = NoneYet
    /\ accsSeen = {}
    /\ validSteps = {}
    /\ files = << >>
    /\ overwritten = FALSE
    /\ printed = << >>
    /\ outerNet = net
    /\ lastBatch = << >>
    /\ lastLoss = [num |-> 0, den |-> 1, weight |-> << >>, outerCalls |-> 0]

Init == InitRun([l \in Losses |-> MaxWeight])

\* one iteration of engine.run(): global_step += 1, then the leaf (inner)
\* problem's step: training_step, SGD update, scheduler step
InnerStep ==
    /\ pc = "train"
    /\ global_step < train_iters
    /\ "inner" \in problems
    /\ LET step == global_step + 1
           out == Inner_training_step(TrainBatch(step), outerNet, baseline, retrain)
           newLr == MultiStepLR_get_lr(innerLr, last_epoch + 1)
       IN /\ global_step' = step
          /\ outerFwd' = outerFwd + out.outerCalls
          /\ innerVer' = innerVer + 1
          /\ last_epoch' = last_epoch + 1
          /\ innerLr' = newLr
          /\ lrChanges' = IF newLr # innerLr THEN lrChanges + 1 ELSE lrChanges
          /\ pc' = IF Parents("inner") # {} /\ UnrollDone(innerVer + 1)
                   THEN "outer"
                   ELSE AfterTrainStep(step)
    /\ UNCHANGED <<baseline, retrain, problems, u2l, l2u, outerVer, outerLr,
                   outerRead, best_acc, ret, accsSeen, validSteps, files,
                   overwritten, printed, outerNet, lastBatch, lastLoss>>

\* the outer problem's step: Outer.training_step reads self.inner, then the
\* Adam update (no scheduler is configured for the outer problem)
OuterStep ==
    /\ pc = "outer"
    /\ "outer" \in problems
    /\ outerRead' = innerVer
    /\ outerVer' = outerVer + 1
    /\ pc' = AfterTrainStep(global_step)
    /\ UNCHANGED <<baseline, retrain, problems, u2l, l2u, global_step, innerVer,
                   last_epoch, innerLr, outerLr, lrChanges, outerFwd, best_acc,
                   ret, accsSeen, validSteps, files, overwritten, printed,
                   outerNet, lastBatch, lastLoss>>

\* ReweightingEngine.validation
Validation ==
    /\ pc = "valid"
    /\ \E correct \in 0..TestTotal :
         LET acc == (correct * 100) \div TestTotal
             best == UpdateBest(best_acc, acc)
             fs == SaveCheckpoints(files, global_step, innerVer, outerVer,
                                   baseline, retrain)
         IN /\ best_acc' = best
            /\ ret' = [acc |-> acc, best_acc |-> best]
            /\ accsSeen' = accsSeen \cup {acc}
            /\ files' = fs
            /\ overwritten' = (overwritten \/
                  \E n \in DOMAIN files : n \in DOMAIN fs /\ fs[n] # files[n])
    /\ validSteps' = validSteps \cup {global_step}
    /\ pc' = LoopNext(global_step)
    /\ UNCHANGED <<baseline, retrain, problems, u2l, l2u, global_step, innerVer,
                   outerVer, last_epoch, innerLr, outerLr, lrChanges, outerRead,
                   outerFwd, printed, outerNet, lastBatch, lastLoss>>

\* print(f"IF ... || Best Acc.: {best_acc}") after engine.run() returns
PrintBest ==
    /\ pc = "print"
    /\ printed' = <<best_acc>>
    /\ pc' = "done"
    /\ UNCHANGED <<baseline, retrain, problems, u2l, l2u, global_step, innerVer,
                   outerVer, last_epoch, innerLr, outerLr, lrChanges, outerRead,
                   outerFwd, best_acc, ret, accsSeen, validSteps, files,
                   overwritten, outerNet, lastBatch, lastLoss>>

Next == InnerStep \/ OuterStep \/ Validation \/ PrintBest

Spec == Init /\ [][Next]_vars

\* engine.run() is a sequential loop: each enabled step is eventually taken
FairSpec == Spec /\ WF_vars(Next)

\* ------------------------------------------------------------ loss function

\* Inner.training_step applied to any batch under any outer network; it is a
\* function of its batch and the outer module alone, so one application per
\* behaviour covers it
InitLoss == \E net \in OuterNets : InitRun(net)

TrainingStepOnBatch ==
    /\ pc = "train"
    /\ lastBatch = << >>
    /\ \E batch \in Batches :
         /\ lastBatch' = batch
         /\ lastLoss' = Inner_training_step(batch, outerNet, baseline, retrain)
    /\ UNCHANGED <<baseline, retrain, problems, u2l, l2u, pc, global_step,
                   innerVer, outerVer, last_epoch, innerLr, outerLr, lrChanges,
                   outerRead, outerFwd, best_acc, ret, accsSeen, validSteps,
                   files, overwritten, printed, outerNet>>

NextLoss == TrainingStepOnBatch

SpecLoss == InitLoss /\ [][NextLoss]_vars

\* ------------------------------------------------------------ properties

CkptNames(step) == {<<"net", step>>, <<"meta_net", step>>}

\* C1 as stated: in reweighting mode a validation() call saves the checkpoints
\* exactly when the accuracy it computed exceeds the previous best_acc.
C1_SavesOnlyOnImprovement ==
    [][(pc = "valid" /\ Reweighting) =>
          ((files' # files) <=> (ret'.acc > best_acc))]_vars

\* C1 as amended: in reweighting mode every validation() call saves both
\* checkpoints of its global step, whether or not the accuracy improved on
\* best_acc; only best_acc itself follows the improvement.
C1_SavesEveryValidation ==
    Reweighting =>
        /\ \A s \in validSteps : CkptNames(s) \subseteq DOMAIN files
        /\ (validSteps # {} /\ ret.acc > best_acc_init) => best_acc >= ret.acc

C1_Witness ==
    /\ Reweighting
    /\ pc = "train"
    /\ global_step \in validSteps
    /\ ret.acc < ret.best_acc
    /\ CkptNames(global_step) \subseteq DOMAIN files

ValidMultiples(upto) == {k * 500 : k \in 1..(upto \div 500)}

C2_Inv ==
    /\ global_step \in 0..train_iters
    /\ innerVer = global_step
    /\ validSteps \subseteq ValidMultiples(global_step)
    /\ ValidMultiples(global_step - 1) \subseteq validSteps
    /\ pc \in {"train", "print", "done"} => validSteps = ValidMultiples(global_step)
    /\ printed # << >> => (pc = "done" /\ 15000 \in validSteps)
    /\ pc \in {"print", "done"} =>
          /\ global_step = 15000
          /\ innerVer = 15000
          /\ Cardinality(validSteps) = 30
          /\ SetMax(validSteps) = 15000
    /\ pc = "done" => printed = <<best_acc>>
    /\ pc # "done" => ENABLED Next

\* position of the run within one iteration, and a measure of its progress
PcRank ==
    CASE pc = "outer" -> 0
      [] pc = "valid" -> 1
      [] pc = "train" -> 2
      [] pc = "print" -> 2
      [] OTHER -> 3

Progress == 4 * global_step + PcRank

\* C2: engine.run() always terminates (no state before the end is stuck and
\* every step strictly increases a measure bounded by the run length), after
\* exactly 15000 training iterations; validation() is invoked exactly at the
\* global steps that are positive multiples of 500, 30 times, the last at
\* step 15000; the "Best Acc." line is printed only after the last
\* validation.
C2_FixedIterationsPeriodicValidation ==
    /\ []C2_Inv
    /\ [][Progress' > Progress /\ Progress' <= 4 * 15000 + 3]_vars

\* the same termination, as a liveness property of the fair run
Terminates == <>(pc = "done")

C2_Witness ==
    /\ pc = "done"
    /\ global_step = 15000
    /\ Cardinality(validSteps) = 30
    /\ printed # << >>

\* C3: in reweighting mode the engine has problems {outer, inner} with
\* u2l = {outer -> [inner]} and l2u = {inner -> [outer]}; with --baseline or
\* --retrain it has the inner problem only and both maps empty, and no
\* outer update step ever occurs.
C3_DependencyGraph ==
    /\ Reweighting =>
          /\ problems = {"outer", "inner"}
          /\ u2l = {<<"outer", "inner">>}
          /\ l2u = {<<"inner", "outer">>}
    /\ ~Reweighting =>
          /\ problems = {"inner"}
          /\ u2l = {}
          /\ l2u = {}
          /\ outerVer = 0
          /\ pc # "outer"

C3_Witness == ~Reweighting /\ pc = "done" /\ innerVer = train_iters /\ outerVer = 0

RECURSIVE WeightedSum(_, _, _)
WeightedSum(batch, net, idx) ==
    IF idx = {} THEN 0
    ELSE LET i == CHOOSE j \in idx : TRUE
         IN net[batch[i].ce] * batch[i].ce + WeightedSum(batch, net, idx \ {i})

RECURSIVE PlainSum(_, _)
PlainSum(batch, idx) ==
    IF idx = {} THEN 0
    ELSE LET i == CHOOSE j \in idx : TRUE
         IN batch[i].ce + PlainSum(batch, idx \ {i})

\* C5: when neither --baseline nor --retrain is set Inner.training_step
\* returns mean_i(w_i * l_i), w_i being the outer network's output on l_i:
\* one weight per sample, depending on the loss value only; otherwise it
\* returns the unweighted mean of l_i and never calls the outer network.
C5_WeightedMeanLoss ==
    lastBatch # << >> =>
        LET n == Len(lastBatch)
        IN /\ Reweighting =>
                /\ lastLoss.num * n * MaxWeight
                     = WeightedSum(lastBatch, outerNet, 1..n) * lastLoss.den
                /\ Len(lastLoss.weight) = n
                /\ \A i \in 1..n : lastLoss.weight[i] = outerNet[lastBatch[i].ce]
                /\ \A i, j \in 1..n :
                     lastBatch[i].ce = lastBatch[j].ce
                        => lastLoss.weight[i] = lastLoss.weight[j]
                /\ lastLoss.outerCalls = 1
           /\ ~Reweighting =>
                /\ lastLoss.num * n = PlainSum(lastBatch, 1..n) * lastLoss.den
                /\ lastLoss.outerCalls = 0

C5_Witness ==
    /\ Reweighting
    /\ lastBatch # << >>
    /\ lastLoss.outerCalls = 1
    /\ \E i, j \in DOMAIN lastBatch :
         /\ lastLoss.weight[i] # lastLoss.weight[j]
         /\ lastBatch[i].ce > 0
         /\ lastBatch[j].ce > 0
    /\ lastLoss.num # PlainSum(lastBatch, DOMAIN lastBatch) * MaxWeight

MilestonesPassed(k) == Cardinality({m \in {10000, 13000} : m <= k})

C6_Inv ==
    /\ last_epoch = innerVer
    /\ innerLr * Pow(10, MilestonesPassed(last_epoch)) = lr
    /\ lrChanges = MilestonesPassed(last_epoch)
    /\ outerLr = meta_lr
    /\ pc = "done" => (lrChanges = 2 /\ last_epoch >= 13000)

\* C6: after k inner scheduler steps the inner learning rate is
\* lr * 0.1^m, m the number of milestones in {10000, 13000} that are <= k;
\* over the 15000-iteration run it changes exactly twice, never increases,
\* and both milestones are reached; the outer learning rate never changes.
C6_StepDecaySchedule ==
    /\ []C6_Inv
    /\ [][innerLr' <= innerLr /\ outerLr' = outerLr
          /\ (innerLr' # innerLr => last_epoch' \in {10000, 13000})]_vars

C6_Witness == pc = "done" /\ innerLr * 100 = lr /\ lrChanges = 2

C7_Inv ==
    /\ accsSeen = {} => (best_acc = -1 /\ validSteps = {})
    /\ accsSeen # {} => best_acc = SetMax(accsSeen)
    /\ ret.best_acc >= ret.acc
    /\ validSteps # {} => (ret.best_acc = best_acc /\ ret.acc \in accsSeen)

\* C7: best_acc starts at -1, never decreases, after every validation()
\* equals the maximum of all accuracies computed so far, the returned
\* dictionary has best_acc >= acc, in every mode, and only validation()
\* writes best_acc.
C7_RunningMaximum ==
    /\ []C7_Inv
    /\ [][best_acc' >= best_acc /\ (best_acc' # best_acc => pc = "valid")]_vars

C7_Witness ==
    /\ ~Reweighting
    /\ Cardinality(accsSeen) >= 2
    /\ ret.acc < best_acc

\* C8: with --baseline or --retrain validation() creates or overwrites no
\* checkpoint file while acc is still computed and best_acc still updated;
\* in every mode validation() leaves the inner and outer networks as they
\* were.
C8_ValidationFrame ==
    /\ [](~Reweighting => DOMAIN files = {})
    /\ [][pc = "valid" =>
            /\ innerVer' = innerVer
            /\ outerVer' = outerVer
            /\ ~Reweighting =>
                 /\ files' = files
                 /\ ret'.acc \in accsSeen'
                 /\ best_acc' = IF ret'.acc > best_acc THEN ret'.acc ELSE best_acc]_vars

C8_Witness ==
    /\ ~Reweighting
    /\ Cardinality(validSteps) >= 2
    /\ best_acc > 0
    /\ DOMAIN files = {}

C9_Inv ==
    Reweighting =>
        /\ DOMAIN files = UNION {CkptNames(s) : s \in validSteps}
        /\ \A s \in validSteps :
             /\ files[<<"net", s>>] = s
             /\ files[<<"meta_net", s>>] = s
        /\ ~overwritten

\* C9: in reweighting mode each saving validation() leaves both net_<s>.pt
\* and meta_net_<s>.pt of its own global step s, holding the inner and outer
\* states of that step; no file of the run is written twice and the set of
\* saved steps only grows.
C9_MatchedPairsNeverOverwritten ==
    /\ []C9_Inv
    /\ [][/\ DOMAIN files \subseteq DOMAIN files'
          /\ \A n \in DOMAIN files : files'[n] = files[n]]_vars

C9_Witness ==
    /\ Reweighting
    /\ Cardinality(validSteps) >= 2
    /\ Cardinality(DOMAIN files) = 2 * Cardinality(validSteps)
    /\ ~overwritten

====
